---------------------------- MODULE Spec2Model ----------------------------
(***************************************************************************)
(* Model of other_emails_v.3.py: initialize_tables() creates three         *)
(* BigQuery tables, runs one fixed query for "new" user emails and inserts *)
(* the result into customer_graph, customer_graph_legacy and used_guids.   *)
(*                                                                         *)
(* Tables are bags (multisets) of rows, as in SQL.  The warehouse calls    *)
(* (create_table, query, result, insert_rows_json) are the environment:    *)
(* each call's outcome is a nondeterministic choice among the outcomes the *)
(* client library can report.                                              *)
(***************************************************************************)
EXTENDS Integers, Sequences, FiniteSets, Bags, TLC

(***************************************************************************)
(* Bounds of the model.                                                    *)
(***************************************************************************)
\* rows of a source dataset, over its four tables together
MaxSourceRows == 5
\* runs of initialize_tables in one behaviour
MaxRuns == 2

(***************************************************************************)
(* Values.  NULL is SQL's NULL / Python's None.                            *)
(***************************************************************************)
NULL == "<NULL>"
Emails == {"a@x.com", "b@x.com"}
Guids == {"G-123", "G-456"}
EmailValues == Emails \cup {NULL}

\* The processing dates CURRENT_DATE() can return, in calendar order.
DateSeq == << [year |-> 2026, month |-> 1, day |-> 9],
              [year |-> 2026, month |-> 11, day |-> 4] >>

VARIABLES
    du,               \* ClarkitbizDimUser: bag of Email values
    iosd,             \* Invoices_And_Orders_Sales_Data: bag of UserEmail values
    us,               \* GetReportUserSubscriptions: bag of email values
    ug,               \* all_users_with_guid: bag of [UserEmail, GUID] rows
    today,            \* index in DateSeq of the current calendar date
    exists,           \* destination table -> does it exist in the dataset
    store,            \* destination table -> its rows, in append order
    status,           \* "idle" | "running" | "done" | "raised" | "crashed"
    pc,               \* position of the run inside initialize_tables
    idx,              \* loop index of the creation loop / of the inserts
    calls,            \* the warehouse calls of this run, with their outcomes
    new_emails,       \* list(query_job.result())
    rows_to_insert,   \* the serialised rows
    used_guids_rows,  \* the (GUID, Date) projection
    sent,             \* destination table -> batch handed to insert_rows_json
    runs,             \* runs started so far
    startLen,         \* destination table -> Len(store) when this run began
    query_date,       \* index in DateSeq of the date CURRENT_DATE() gave this run
    completed         \* per run that returned: its query date, inserts all ok

vars == << du, iosd, us, ug, today, exists, store, status, pc, idx, calls,
           new_emails, rows_to_insert, used_guids_rows, sent, runs, startLen,
           query_date, completed >>

source == << du, iosd, us, ug >>

(***************************************************************************)
(* Bags.                                                                   *)
(***************************************************************************)
Range(s) == { s[k] : k \in DOMAIN s }

\* The bag holding cnt[x] copies of each x of DOMAIN cnt.
MkBag(cnt) == [ x \in { y \in DOMAIN cnt : cnt[y] > 0 } |-> cnt[x] ]

BagOfSeq(s) == MkBag([ x \in Range(s) |-> Cardinality({ k \in DOMAIN s : s[k] = x }) ])

\* the bags of exactly k rows drawn from S
BagsOfSize(S, k) == { BagOfSeq(s) : s \in [1..k -> S] }

\* The listings of bag B: the sequences holding exactly its rows.
Listings(B) ==
    { s \in [1..BagCardinality(B) -> BagToSet(B)] : BagOfSeq(s) = B }

RECURSIVE SumOver(_, _)
SumOver(S, B) ==
    IF S = {} THEN 0
    ELSE LET x == CHOOSE y \in S : TRUE
         IN  CopiesIn(x, B) + SumOver(S \ {x}, B)

(***************************************************************************)
(* SQL operators on bags.  A column, a predicate or a SELECT list is given *)
(* as a function on the rows of the table it is evaluated on.              *)
(***************************************************************************)
\* a = b in an ON clause: never true of a NULL
SqlEq(a, b) == a # NULL /\ b # NULL /\ a = b

\* L LEFT JOIN R ON key[l] = r, R a one-column table: rows <<l, r>>, with
\* r = NULL for an l that no row of R matches.
LeftJoin(L, R, key) ==
    MkBag([ p \in BagToSet(L) \X (BagToSet(R) \cup {NULL}) |->
              IF SqlEq(key[p[1]], p[2]) THEN CopiesIn(p[1], L) * CopiesIn(p[2], R)
              ELSE IF p[2] = NULL /\ \A r \in BagToSet(R) : ~SqlEq(key[p[1]], r)
                   THEN CopiesIn(p[1], L)
                   ELSE 0 ])

\* L JOIN R ON lkey[l] = rkey[r]: rows <<l, r>>
InnerJoin(L, R, lkey, rkey) ==
    MkBag([ p \in BagToSet(L) \X BagToSet(R) |->
              IF SqlEq(lkey[p[1]], rkey[p[2]])
              THEN CopiesIn(p[1], L) * CopiesIn(p[2], R) ELSE 0 ])

\* ... WHERE cond
Where(B, cond) == MkBag([ x \in BagToSet(B) |-> IF cond[x] THEN CopiesIn(x, B) ELSE 0 ])

\* SELECT f[row] FROM B (no DISTINCT: multiplicities add up)
Select(B, f) ==
    MkBag([ y \in { f[x] : x \in BagToSet(B) } |->
              SumOver({ x \in BagToSet(B) : f[x] = y }, B) ])

Distinct(B) == SetToBag(BagToSet(B))

(***************************************************************************)
(* The query.                                                              *)
(***************************************************************************)
CandidateRow(e) == [UserEmail |-> e, ShippingID |-> NULL, BillingID |-> NULL]

\* du LEFT JOIN iosd ON du.Email = iosd.UserEmail
DimSales(d, s) == LeftJoin(d, s, [ e \in BagToSet(d) |-> e ])

\* us LEFT JOIN du ON us.email = du.Email LEFT JOIN iosd ON us.Email = iosd.UserEmail
SubsDimSales(u, d, s) ==
    LET ud == LeftJoin(u, d, [ e \in BagToSet(u) |-> e ])
    IN  LeftJoin(ud, s, [ p \in BagToSet(ud) |-> p[1] ])

\* faulty variant of DimBranch: the anti-join filter "WHERE iosd.UserEmail IS NULL" lost
DimBranchNoAntiJoin(d, s) ==
    LET j == DimSales(d, s)
    IN  Distinct(Select(j, [ p \in BagToSet(j) |-> CandidateRow(p[1]) ]))

\* faulty variant of DimBranch: SELECT without DISTINCT
DimBranchNoDistinct(d, s) ==
    LET j == DimSales(d, s)
        w == Where(j, [ p \in BagToSet(j) |-> p[2] = NULL ])
    IN  Select(w, [ p \in BagToSet(w) |-> CandidateRow(p[1]) ])

\* first branch of user_emails: dimensional users without a sales row
DimBranch(d, s) ==
    LET j == DimSales(d, s)
        w == Where(j, [ p \in BagToSet(j) |-> p[2] = NULL ])
    IN  Distinct(Select(w, [ p \in BagToSet(w) |-> CandidateRow(p[1]) ]))

\* faulty variant of SubsBranch: "AND du.Email IS NULL" lost
SubsBranchNoDimFilter(u, d, s) ==
    LET j == SubsDimSales(u, d, s)
        w == Where(j, [ q \in BagToSet(j) |-> q[2] = NULL ])
    IN  Distinct(Select(w, [ q \in BagToSet(w) |-> CandidateRow(q[1][1]) ]))

\* second branch: subscribers in neither the dimensional nor the sales table
SubsBranch(u, d, s) ==
    LET j == SubsDimSales(u, d, s)
        w == Where(j, [ q \in BagToSet(j) |-> q[2] = NULL /\ q[1][2] = NULL ])
    IN  Distinct(Select(w, [ q \in BagToSet(w) |-> CandidateRow(q[1][1]) ]))

\* WITH user_emails AS (... UNION ALL ...)
UserEmails(d, s, u) == DimBranch(d, s) (+) SubsBranch(u, d, s)

ResultRow(ue, a, date) ==
    [GUID |-> a.GUID, UserEmail |-> ue.UserEmail, BillingID |-> ue.BillingID,
     ShippingID |-> ue.ShippingID, Date |-> date]

\* user_emails ue JOIN all_users_with_guid ug ON ue.UserEmail = ug.UserEmail
CandidatesWithGuid(ue, g) ==
    InnerJoin(ue, g, [ c \in BagToSet(ue) |-> c.UserEmail ],
                     [ a \in BagToSet(g) |-> a.UserEmail ])

\* faulty variant of GuidJoin: LEFT JOIN instead of JOIN, candidates without a GUID kept
GuidJoinLeft(ue, g, date) ==
    LET j == CandidatesWithGuid(ue, g)
        w == Where(ue, [ c \in BagToSet(ue) |->
                           \A a \in BagToSet(g) : ~SqlEq(c.UserEmail, a.UserEmail) ])
    IN  Select(j, [ p \in BagToSet(j) |-> ResultRow(p[1], p[2], date) ])
        (+) Select(w, [ c \in BagToSet(w) |-> ResultRow(c, [GUID |-> NULL], date) ])

\* SELECT ug.GUID, ue.*, CURRENT_DATE() FROM user_emails ue JOIN ... ug ON ...
GuidJoin(ue, g, date) ==
    LET j == CandidatesWithGuid(ue, g)
    IN  Select(j, [ p \in BagToSet(j) |-> ResultRow(p[1], p[2], date) ])

NewEmailsQuery(d, s, u, g, date) == GuidJoin(UserEmails(d, s, u), g, date)

(***************************************************************************)
(* Serialisation of the result rows.                                       *)
(***************************************************************************)
\* n in decimal, zero-padded to at least w digits
Pad(n, w) ==
    LET s == ToString(n)
    IN  IF Len(s) >= w THEN s ELSE SubSeq("0000", 1, w - Len(s)) \o s

\* datetime.date.isoformat(): YYYY-MM-DD
IsoFormat(d) == Pad(d.year, 4) \o "-" \o Pad(d.month, 2) \o "-" \o Pad(d.day, 2)

\* one element of rows_to_insert
SerialiseRow(email) ==
    [GUID |-> email.GUID, UserEmail |-> email.UserEmail,
     BillingID |-> email.BillingID, ShippingID |-> email.ShippingID,
     Date |-> IsoFormat(email.Date)]

RowsToInsert(ne) == [ k \in DOMAIN ne |-> SerialiseRow(ne[k]) ]

\* faulty variant of UsedGuidsRows: one record per distinct GUID instead of one per row
UsedGuidsRowsDistinct(ne) ==
    LET all == [ k \in DOMAIN ne |-> [GUID |-> ne[k].GUID, Date |-> IsoFormat(ne[k].Date)] ]
    IN  IF all = << >> THEN << >>
        ELSE CHOOSE s \in Listings(Distinct(BagOfSeq(all))) : TRUE

UsedGuidsRows(ne) ==
    [ k \in DOMAIN ne |-> [GUID |-> ne[k].GUID, Date |-> IsoFormat(ne[k].Date)] ]

(***************************************************************************)
(* The workflow.                                                           *)
(***************************************************************************)
\* tables = [...] (line 25): the order of the creation loop
Tables == << "customer_graph", "customer_graph_legacy", "used_guids" >>
TableSet == Range(Tables)

\* faulty variant of InsertOrder: the audit table written first
InsertOrderAuditFirst == << "used_guids", "customer_graph", "customer_graph_legacy" >>

\* the order of the insert_rows_json calls (the loop of line 108, then line 119)
InsertOrder == << "customer_graph", "customer_graph_legacy", "used_guids" >>

NoBatch == << [sent |-> FALSE] >>

\* What create_table can report: Conflict (a GoogleAPIError) for a table that
\* exists; otherwise the table is created or the call fails.
CreateOutcomes(t) ==
    IF exists[t] THEN {"GoogleAPIError"} ELSE {"created", "GoogleAPIError"}

\* faulty variant of CreateHandler: no try/except around create_table
CreateHandlerNoExcept(outcome) ==
    IF outcome = "GoogleAPIError" THEN "raise" ELSE "continue"

\* the try/except of the creation loop: both branches only print
CreateHandler(outcome) == "continue"

\* What insert_rows_json can do: return [] (rows appended), return a list of
\* row errors (by default no row of the request is then appended), or raise
\* (always, for a table that does not exist).
InsertOutcomes(t) ==
    IF exists[t] THEN {"ok", "row_errors", "raise"} ELSE {"raise"}

\* faulty variant of InsertHandler: a non-empty error list aborts the run
InsertHandlerAbortOnErrors(outcome) ==
    IF outcome = "ok" THEN "continue" ELSE "raise"

\* "if errors: print(...) else: print(...)": a returned list never stops the run
InsertHandler(outcome) == IF outcome = "raise" THEN "raise" ELSE "continue"

\* faulty variant of QueryHandler: a failing query is swallowed, the run goes on
QueryHandlerSwallow(outcome) == "continue"

\* client.query / query_job.result are not inside any try
QueryHandler(outcome) == IF outcome = "raise" THEN "raise" ELSE "continue"

Call(op, t, outcome) == [op |-> op, table |-> t, outcome |-> outcome]

\* initialize_tables() is entered: lines 23-41 build the client and the schemas
StartRun ==
    /\ status # "running"
    /\ runs < MaxRuns
    /\ runs' = runs + 1
    /\ status' = "running"
    /\ pc' = "create"
    /\ idx' = 1
    /\ calls' = << >>
    /\ new_emails' = << >>
    /\ rows_to_insert' = << >>
    /\ used_guids_rows' = << >>
    /\ sent' = [ t \in TableSet |-> NoBatch ]
    /\ startLen' = [ t \in TableSet |-> Len(store[t]) ]
    /\ query_date' = 0
    /\ UNCHANGED << source, today, exists, store, completed >>

\* one iteration of "for table_id in tables" (lines 44-52)
CreateTable ==
    /\ status = "running" /\ pc = "create"
    /\ \E outcome \in CreateOutcomes(Tables[idx]) :
         /\ exists' = [exists EXCEPT ![Tables[idx]] = (@ \/ outcome = "created")]
         /\ calls' = Append(calls, Call("create_table", Tables[idx], outcome))
         /\ IF CreateHandler(outcome) = "raise"
            THEN status' = "raised" /\ UNCHANGED << pc, idx >>
            ELSE /\ status' = status
                 /\ IF idx < Len(Tables)
                    THEN idx' = idx + 1 /\ pc' = pc
                    ELSE idx' = 1 /\ pc' = "query"
    /\ UNCHANGED << source, today, store, new_emails, rows_to_insert,
                    used_guids_rows, sent, runs, startLen, query_date,
                    completed >>

\* query_job = client.query(query) (line 92)
SubmitQuery ==
    /\ status = "running" /\ pc = "query"
    /\ \E outcome \in {"ok", "raise"} :
         /\ calls' = Append(calls, Call("query", "-", outcome))
         /\ IF QueryHandler(outcome) = "raise"
            THEN status' = "raised" /\ pc' = pc
            ELSE status' = status /\ pc' = "result"
    /\ UNCHANGED << source, today, exists, store, idx, new_emails,
                    rows_to_insert, used_guids_rows, sent, runs, startLen,
                    query_date, completed >>

\* new_emails = list(query_job.result()); rows_to_insert = [...] (lines 93-105)
FetchResult ==
    /\ status = "running" /\ pc = "result"
    /\ \E outcome \in {"ok", "raise"} :
         /\ calls' = Append(calls, Call("result", "-", outcome))
         /\ IF QueryHandler(outcome) = "raise"
            THEN /\ status' = "raised" /\ pc' = pc
                 /\ UNCHANGED << new_emails, rows_to_insert, query_date >>
            ELSE /\ status' = status /\ pc' = "insert"
                 /\ IF outcome = "ok"
                    THEN \E rows \in Listings(NewEmailsQuery(du, iosd, us, ug, DateSeq[today])) :
                            /\ new_emails' = rows
                            /\ rows_to_insert' = RowsToInsert(rows)
                            /\ query_date' = today
                    ELSE UNCHANGED << new_emails, rows_to_insert, query_date >>
    /\ UNCHANGED << source, today, exists, store, idx, used_guids_rows, sent,
                    runs, startLen, completed >>

\* the batch handed to insert_rows_json for table t (lines 110, 117-119)
BatchFor(t, ne, rti) == IF t = "used_guids" THEN UsedGuidsRows(ne) ELSE rti

\* faulty variant of InsertAll: rows already in the table are not written again
InsertAllDedup(rows, batch, outcome) ==
    IF outcome = "ok"
    THEN rows \o SelectSeq(batch, LAMBDA r : r \notin Range(rows))
    ELSE rows

\* the table after insert_rows_json: the batch is appended when the call
\* returns no errors, and nothing is written otherwise
InsertAll(rows, batch, outcome) == IF outcome = "ok" THEN rows \o batch ELSE rows

\* one insert_rows_json call and the print after it (lines 108-123)
InsertRows ==
    /\ status = "running" /\ pc = "insert"
    /\ LET t == InsertOrder[idx]
           batch == BatchFor(t, new_emails, rows_to_insert)
       IN  \E outcome \in InsertOutcomes(t) :
             /\ sent' = [sent EXCEPT ![t] = batch]
             /\ used_guids_rows' = IF t = "used_guids" THEN batch ELSE used_guids_rows
             /\ store' = [store EXCEPT ![t] = InsertAll(@, batch, outcome)]
             /\ calls' = Append(calls, Call("insert_rows_json", t, outcome))
             /\ IF InsertHandler(outcome) = "raise"
                THEN status' = "raised" /\ UNCHANGED << pc, idx, completed >>
                ELSE IF idx < Len(InsertOrder)
                     THEN idx' = idx + 1 /\ UNCHANGED << status, pc, completed >>
                     ELSE /\ status' = "done" /\ UNCHANGED << pc, idx >>
                          /\ completed' = Append(completed,
                                [date |-> query_date,
                                 allOk |-> \A k \in DOMAIN calls' :
                                     calls'[k].op = "insert_rows_json"
                                         => calls'[k].outcome = "ok"])
    /\ UNCHANGED << source, today, exists, new_emails, rows_to_insert, runs,
                    startLen, query_date >>

\* the process is killed at whatever point it has reached
Crash ==
    /\ status = "running"
    /\ status' = "crashed"
    /\ UNCHANGED << source, today, exists, store, pc, idx, calls, new_emails,
                    rows_to_insert, used_guids_rows, sent, runs, startLen,
                    query_date, completed >>

\* midnight passes: CURRENT_DATE() returns the next date from now on
Tick ==
    /\ today < Len(DateSeq)
    /\ today' = today + 1
    /\ UNCHANGED << source, exists, store, status, pc, idx, calls, new_emails,
                    rows_to_insert, used_guids_rows, sent, runs, startLen,
                    query_date, completed >>

(***************************************************************************)
(* Source datasets.                                                        *)
(***************************************************************************)
AssignRows == [UserEmail : EmailValues, GUID : Guids]

EmailBags == [ k \in 0..MaxSourceRows |-> BagsOfSize(EmailValues, k) ]
AssignBags == [ k \in 0..MaxSourceRows |-> BagsOfSize(AssignRows, k) ]

\* the source datasets with the given numbers of rows
DatasetsOfSize(nd, ns, nu, ng) ==
    [du : EmailBags[nd], iosd : EmailBags[ns], us : EmailBags[nu], ug : AssignBags[ng]]

Assign(e, g) == [UserEmail |-> e, GUID |-> g]

\* The datasets the whole workflow is run against: the end-to-end scenario
\* (one new dimensional user), two new users (one dimensional and listed
\* twice, one subscriber), a user whose assignment row is duplicated, and a
\* dataset whose only user has a sales row (empty result).
WorkflowDatasets ==
    { [du |-> BagOfSeq(<< "a@x.com" >>), iosd |-> EmptyBag, us |-> EmptyBag,
       ug |-> BagOfSeq(<< Assign("a@x.com", "G-123") >>)],
      [du |-> BagOfSeq(<< "a@x.com", "a@x.com" >>), iosd |-> EmptyBag,
       us |-> BagOfSeq(<< "b@x.com" >>),
       ug |-> BagOfSeq(<< Assign("a@x.com", "G-123"), Assign("b@x.com", "G-456") >>)],
      [du |-> BagOfSeq(<< "a@x.com" >>), iosd |-> EmptyBag, us |-> EmptyBag,
       ug |-> BagOfSeq(<< Assign("a@x.com", "G-123"), Assign("a@x.com", "G-123") >>)],
      [du |-> BagOfSeq(<< "a@x.com" >>), iosd |-> BagOfSeq(<< "a@x.com" >>),
       us |-> BagOfSeq(<< "a@x.com" >>),
       ug |-> BagOfSeq(<< Assign("a@x.com", "G-123") >>)] }

SourceIs(ds) == du = ds.du /\ iosd = ds.iosd /\ us = ds.us /\ ug = ds.ug

(***************************************************************************)
(* The workflow, run up to MaxRuns times against one source dataset.       *)
(***************************************************************************)
Init ==
    /\ \E ds \in WorkflowDatasets : SourceIs(ds)
    /\ today = 1
    /\ exists \in [TableSet -> BOOLEAN]
    /\ store = [ t \in TableSet |-> << >> ]
    /\ status = "idle"
    /\ pc = "create"
    /\ idx = 1
    /\ calls = << >>
    /\ new_emails = << >>
    /\ rows_to_insert = << >>
    /\ used_guids_rows = << >>
    /\ sent = [ t \in TableSet |-> NoBatch ]
    /\ runs = 0
    /\ startLen = [ t \in TableSet |-> 0 ]
    /\ query_date = 0
    /\ completed = << >>

Next ==
    \/ StartRun
    \/ CreateTable
    \/ SubmitQuery
    \/ FetchResult
    \/ InsertRows
    \/ Crash
    \/ Tick

Spec == Init /\ [][Next]_vars

(***************************************************************************)
(* The query phase alone, over every source dataset within the bounds: a   *)
(* run that has been through the creation loop with the three tables       *)
(* already there (each create_table reported Conflict).                    *)
(***************************************************************************)
InitQuery ==
    /\ \E nd, ns, nu, ng \in 0..MaxSourceRows :
         /\ nd + ns + nu + ng <= MaxSourceRows
         /\ \E ds \in DatasetsOfSize(nd, ns, nu, ng) : SourceIs(ds)
    /\ today = 1
    /\ exists = [ t \in TableSet |-> TRUE ]
    /\ store = [ t \in TableSet |-> << >> ]
    /\ status = "running"
    /\ pc = "query"
    /\ idx = 1
    /\ calls = [ k \in DOMAIN Tables |-> Call("create_table", Tables[k], "GoogleAPIError") ]
    /\ new_emails = << >>
    /\ rows_to_insert = << >>
    /\ used_guids_rows = << >>
    /\ sent = [ t \in TableSet |-> NoBatch ]
    /\ runs = 1
    /\ startLen = [ t \in TableSet |-> 0 ]
    /\ query_date = 0
    /\ completed = << >>

NextQuery ==
    \/ SubmitQuery
    \/ FetchResult

SpecQuery == InitQuery /\ [][NextQuery]_vars

(***************************************************************************)
(* Properties of the query (checked under SpecQuery).                      *)
(***************************************************************************)
\* this run holds a materialised query result
ResultFetched == query_date # 0

InTable(e, B) == e # NULL /\ CopiesIn(e, B) > 0

HasAssignment(e) == \E a \in BagToSet(ug) : SqlEq(e, a.UserEmail)

\* how many rows of list rows carry email e / GUID g / both
WithEmail(rows, e) == Cardinality({ k \in DOMAIN rows : rows[k].UserEmail = e })
WithGuid(rows, g) == Cardinality({ k \in DOMAIN rows : rows[k].GUID = g })
WithBoth(rows, e, g) ==
    Cardinality({ k \in DOMAIN rows : rows[k].UserEmail = e /\ rows[k].GUID = g })

\* e is in the dimensional table, not in the sales table, and has a GUID row
NewDimUser(e) == InTable(e, du) /\ ~InTable(e, iosd) /\ HasAssignment(e)

\* C5 as stated: the GUID of a dimensional user who has no sales row and has a
\* row in the GUID-assignment table is in the query result exactly once.
C5_GuidExactlyOnce ==
    ResultFetched =>
        \A e \in Emails : NewDimUser(e) =>
            \A a \in BagToSet(ug) : a.UserEmail = e =>
                WithGuid(new_emails, a.GUID) = 1

\* C5, amended: for a dimensional user e with no sales row, the query result
\* holds the row (GUID g, UserEmail e) once per row (e, g) of the
\* GUID-assignment table -- so exactly once when that table holds one such
\* row -- however often e is listed in the dimensional table and whether or
\* not e is in the subscriptions table.
C5_OncePerAssignmentRow ==
    ResultFetched =>
        \A e \in Emails : (InTable(e, du) /\ ~InTable(e, iosd)) =>
            \A g \in Guids :
                WithBoth(new_emails, e, g)
                    = CopiesIn(Assign(e, g), ug)

\* a user listed twice in the dimensional table and once in the subscriptions
\* table, with one assignment row, is in the result once
C5_Witness ==
    /\ ResultFetched
    /\ \E e \in Emails :
         /\ CopiesIn(e, du) = 2 /\ InTable(e, us) /\ ~InTable(e, iosd)
         /\ SumOver({ a \in BagToSet(ug) : a.UserEmail = e }, ug) = 1
         /\ WithEmail(new_emails, e) = 1

\* C6: a user whose email is in both the dimensional table and the sales
\* table is in no row of the query result, nor of the serialised batch.
C6_SalesUsersExcluded ==
    \A e \in Emails : (InTable(e, du) /\ InTable(e, iosd)) =>
        /\ WithEmail(new_emails, e) = 0
        /\ WithEmail(rows_to_insert, e) = 0

\* a user in all four source tables is left out of the fetched result
C6_Witness ==
    /\ ResultFetched
    /\ \E e \in Emails :
         /\ InTable(e, du) /\ InTable(e, iosd) /\ InTable(e, us) /\ HasAssignment(e)
         /\ WithEmail(new_emails, e) = 0

\* C7: a candidate email (a row of user_emails) with no row in the
\* GUID-assignment table is in no row of the query result nor of the
\* serialised batch, and every GUID of the audit batch is the GUID of an
\* assignment row of a candidate.
C7_NoAssignmentNoRow ==
    /\ \A c \in BagToSet(UserEmails(du, iosd, us)) :
         ~HasAssignment(c.UserEmail) =>
            /\ WithEmail(new_emails, c.UserEmail) = 0
            /\ WithEmail(rows_to_insert, c.UserEmail) = 0
    /\ \A k \in DOMAIN new_emails :
         /\ \E a \in BagToSet(ug) :
              a.GUID = UsedGuidsRows(new_emails)[k].GUID
                  /\ SqlEq(a.UserEmail, new_emails[k].UserEmail)
         /\ rows_to_insert[k].GUID \in Guids

\* one candidate has no assignment row and is dropped, another has one and is kept
C7_Witness ==
    /\ ResultFetched
    /\ new_emails # << >>
    /\ \E c \in BagToSet(UserEmails(du, iosd, us)) :
         c.UserEmail # NULL /\ ~HasAssignment(c.UserEmail)

\* C10: the two branches of the UNION ALL never both yield the same non-null
\* email: the subscriptions branch yields only emails absent from the
\* dimensional and the sales table, the dimensional branch only emails of the
\* dimensional table, user_emails holds each non-null email at most once, and
\* the result holds at most one row per (email, assignment row) pair.
C10_BranchesDisjoint ==
    /\ \A e \in Emails :
         /\ CopiesIn(CandidateRow(e), SubsBranch(us, du, iosd)) > 0
                => ~InTable(e, du) /\ ~InTable(e, iosd)
         /\ CopiesIn(CandidateRow(e), DimBranch(du, iosd)) > 0 => InTable(e, du)
         /\ CopiesIn(CandidateRow(e), UserEmails(du, iosd, us)) <= 1
    /\ \A e \in Emails, g \in Guids :
         WithBoth(new_emails, e, g)
            <= CopiesIn(Assign(e, g), ug)

\* an email in both the subscriptions and the dimensional table (and not in
\* the sales table) comes out of the union once, while NULL comes out of
\* both branches
C10_Witness ==
    /\ ResultFetched
    /\ \E e \in Emails :
         /\ InTable(e, du) /\ InTable(e, us) /\ ~InTable(e, iosd)
         /\ CopiesIn(CandidateRow(e), UserEmails(du, iosd, us)) = 1
         /\ WithEmail(new_emails, e) = 1
    /\ CopiesIn(CandidateRow(NULL), UserEmails(du, iosd, us)) = 2

(***************************************************************************)
(* Properties of the workflow (checked under Spec).                        *)
(***************************************************************************)
Last(s) == s[Len(s)]

IsPrefix(s, t) == Len(s) <= Len(t) /\ SubSeq(t, 1, Len(s)) = s

\* the insert_rows_json calls of this run, in order
InsertCalls == SelectSeq(calls, LAMBDA c : c.op = "insert_rows_json")

Returned(c) == c.outcome \in {"ok", "row_errors"}

QuerySucceeded == \E k \in DOMAIN calls : calls[k].op = "result" /\ calls[k].outcome = "ok"

QueryFailed ==
    \E k \in DOMAIN calls : calls[k].op \in {"query", "result"} /\ calls[k].outcome = "raise"

\* the rows this run has appended to destination table t
ThisRun(t) == SubSeq(store[t], startLen[t] + 1, Len(store[t]))

\* C1: an insert that returns (an empty or non-empty list of row errors) never
\* ends the run: the inserts go to customer_graph, customer_graph_legacy,
\* used_guids in this order, each returned insert is followed by the next
\* one (which is pending only while the run is still going, or was killed),
\* and a run whose query succeeded ends before the third insert only by an
\* exception raised by insert_rows_json itself.
C1_ErrorsDoNotStopInserts ==
    LET ins == InsertCalls
    IN  /\ \A k \in DOMAIN ins :
             /\ ins[k].table = << "customer_graph", "customer_graph_legacy", "used_guids" >>[k]
             /\ (Returned(ins[k]) /\ k < 3) =>
                    \/ Len(ins) > k
                    \/ status \in {"running", "crashed"}
        /\ status = "done" => Len(ins) = 3
        /\ (status = "raised" /\ QuerySucceeded) =>
                ins # << >> /\ Last(ins).outcome = "raise"
        /\ ins # << >> => QuerySucceeded

\* both customer-graph inserts reported row errors and the audit insert was
\* still made, with a non-empty batch
C1_Witness ==
    /\ status = "done"
    /\ Len(InsertCalls) = 3
    /\ InsertCalls[1].outcome = "row_errors"
    /\ InsertCalls[2].outcome = "row_errors"
    /\ InsertCalls[3].outcome = "ok"
    /\ ThisRun("used_guids") # << >>

C3_QueryFailureTerminates ==
    /\ [](QueryFailed =>
            /\ status = "raised"
            /\ Last(calls).op \in {"query", "result"}
            /\ InsertCalls = << >>
            /\ \A t \in TableSet : sent[t] = NoBatch /\ ThisRun(t) = << >>)
    /\ [][QueryFailed' => store' = store]_vars

\* the second run fails in query_job.result() and leaves the rows of the first
\* run as they were
C3_Witness ==
    /\ QueryFailed
    /\ Last(calls).op = "result"
    /\ runs = 2
    /\ store["customer_graph"] # << >>
    /\ store["used_guids"] # << >>

\* the ISO-8601 text of the dates of DateSeq
IsoText == << "2026-01-09", "2026-11-04" >>

\* C4: the batches handed to customer_graph and customer_graph_legacy are both
\* the whole query result, row by row, with GUID, UserEmail, BillingID and
\* ShippingID as the query gave them and Date as ISO text; the batch handed to
\* used_guids is the (GUID, Date) projection of that batch, row by row; what
\* a run appends to a table is the batch it handed over.
C4_FanOutConsistent ==
    /\ ResultFetched =>
          BagCardinality(NewEmailsQuery(du, iosd, us, ug, DateSeq[query_date]))
              = Len(new_emails)
    /\ \A t \in {"customer_graph", "customer_graph_legacy"} :
         sent[t] # NoBatch =>
            /\ Len(sent[t]) = Len(new_emails)
            /\ \A k \in DOMAIN sent[t] :
                 /\ sent[t][k].GUID = new_emails[k].GUID
                 /\ sent[t][k].UserEmail = new_emails[k].UserEmail
                 /\ sent[t][k].BillingID = new_emails[k].BillingID
                 /\ sent[t][k].ShippingID = new_emails[k].ShippingID
                 /\ sent[t][k].Date = IsoText[query_date]
                 /\ DOMAIN sent[t][k] = {"GUID", "UserEmail", "BillingID", "ShippingID", "Date"}
    /\ sent["customer_graph_legacy"] # NoBatch
          => sent["customer_graph_legacy"] = sent["customer_graph"]
    /\ sent["used_guids"] # NoBatch =>
          /\ Len(sent["used_guids"]) = Len(sent["customer_graph"])
          /\ \A k \in DOMAIN sent["used_guids"] :
               sent["used_guids"][k] =
                   [GUID |-> sent["customer_graph"][k].GUID,
                    Date |-> sent["customer_graph"][k].Date]
    /\ \A t \in TableSet : ThisRun(t) \in {<< >>, sent[t]}

\* two identical result rows (a duplicated assignment row) go to all three
\* tables, twice each, dated the second date
C4_Witness ==
    /\ status = "done"
    /\ query_date = 2
    /\ Len(new_emails) = 2 /\ new_emails[1] = new_emails[2]
    /\ \A t \in TableSet : Len(ThisRun(t)) = 2
    /\ ThisRun("used_guids")[1] = [GUID |-> "G-123", Date |-> "2026-11-04"]

\* every run so far returned, with all three of its inserts accepted
AllRunsOk ==
    /\ status = "done"
    /\ Len(completed) = runs
    /\ \A k \in DOMAIN completed : completed[k].allOk

\* the rows of list rows equal to r
Copies(r, rows) == Cardinality({ k \in DOMAIN rows : rows[k] = r })

\* each destination table holds every row of the latest batch twice
EveryRowTwice ==
    \A t \in TableSet : \A k \in DOMAIN sent[t] :
        Copies(sent[t][k], store[t]) = 2 * Copies(sent[t][k], sent[t])

\* the rows a run whose query ran on date DateSeq[d] writes to table t
ExpectedBatch(t, d) ==
    LET res == NewEmailsQuery(du, iosd, us, ug, DateSeq[d])
    IN  Select(res, [ r \in BagToSet(res) |->
                        IF t = "used_guids"
                        THEN [GUID |-> r.GUID, Date |-> IsoText[d]]
                        ELSE [GUID |-> r.GUID, UserEmail |-> r.UserEmail,
                              BillingID |-> r.BillingID, ShippingID |-> r.ShippingID,
                              Date |-> IsoText[d]] ])

RECURSIVE ExpectedRows(_, _)
ExpectedRows(t, n) ==
    IF n = 0 THEN EmptyBag
    ELSE ExpectedRows(t, n - 1) (+) ExpectedBatch(t, completed[n].date)

\* C8 as stated: after two runs against the unchanged source dataset, with
\* all inserts accepted, each destination table holds every result row twice.
C8_TwoRunsEveryRowTwice == (AllRunsOk /\ runs = 2) => EveryRowTwice

\* C8, amended: no step removes or changes a row of a destination table, and
\* after n runs with all inserts accepted each table holds the n batches,
\* every result of the query once per run, dated with that run's processing
\* date; after two such runs on the same date it holds every result row
\* twice.
C8_AppendOnlyBatchPerRun ==
    /\ [][\A t \in TableSet : IsPrefix(store[t], store'[t])]_vars
    /\ [](AllRunsOk =>
            /\ \A t \in TableSet : BagOfSeq(store[t]) = ExpectedRows(t, runs)
            /\ (runs = 2 /\ completed[1].date = completed[2].date) => EveryRowTwice)

\* two runs on the same date have written the same two rows
C8_Witness ==
    /\ AllRunsOk /\ runs = 2
    /\ completed[1].date = completed[2].date
    /\ Len(store["customer_graph"]) = 4
    /\ Len(store["used_guids"]) = 4
    /\ EveryRowTwice

\* the run was killed after its first and before its last insert_rows_json call
CrashedBetweenInserts == status = "crashed" /\ pc = "insert" /\ idx \in 2..3

=============================================================================
